---------------------------- MODULE Spec2Model ----------------------------
(***************************************************************************)
(* Model of karesztrk/pathfinder: the grid (Maze), the recursive-          *)
(* backtracker maze generator of src/lib.rs and src/main.rs, the           *)
(* successors adapter and the three search strategies Path::calc           *)
(* dispatches to.                                                          *)
(***************************************************************************)
EXTENDS Integers, Sequences, FiniteSets, TLC

(***************************************************************************)
(* Bounds of the model.                                                    *)
(***************************************************************************)
\* largest `size` handed to draw_maze in the generation specification
GenMaxSize == 7
\* largest width / height handed to Maze::new in the pathfinding specifications
MaxDim == 3
\* largest number of cells set to Path in the pathfinding specifications
MaxOpen == 5

(***************************************************************************)
(* Program constants.                                                      *)
(***************************************************************************)
\* main.rs: let width = 4; let height = 4;
MainWidth == 4
MainHeight == 4

VARIABLES
    maze,       \* Maze { width, height, cells } (cells row-major, 1-based here)
    prog,       \* which entry point built the maze: "none", "lib", "main", "new"
    pc,         \* position of the program
    start,      \* the generator's start / the path request's start
    stack,      \* generate_maze: VecDeque used as a stack (back = top)
    visited,    \* generate_maze: HashSet of visited points
    goal,       \* the path request's goal
    algorithm,  \* the path request's Algorithm
    outcome     \* what the last call produced

vars == <<maze, prog, pc, start, stack, visited, goal, algorithm, outcome>>

Wall == "Wall"
Path == "Path"
GridCell == {Wall, Path}

Point(x, y) == [x |-> x, y |-> y]

NoPoint == [x |-> -1, y |-> -1]
NoOutcome == [kind |-> "none", steps |-> <<>>, message |-> ""]

(***************************************************************************)
(* Maze                                                                    *)
(***************************************************************************)
RECURSIVE Repeat(_, _)
Repeat(c, n) == IF n = 0 THEN <<>> ELSE Append(Repeat(c, n - 1), c)

\* Maze::new: width * height cells, all Wall; no check of the dimensions
MazeNew(width, height) ==
    [width |-> width, height |-> height, cells |-> Repeat(Wall, width * height)]

\* Maze::index
index(m, x, y) == y * m.width + x

\* Maze::get: Some(cell) in bounds, None otherwise
get(m, x, y) ==
    IF x < m.width /\ y < m.height THEN m.cells[index(m, x, y) + 1] ELSE "None"

\* Maze::set indexes the Vec without a bounds check of its own: it panics
\* exactly when the row-major index is outside the Vec
setPanics(m, x, y) == index(m, x, y) >= Len(m.cells)

set(m, x, y, cell) ==
    [m EXCEPT !.cells = [@ EXCEPT ![index(m, x, y) + 1] = cell]]

directionsUnitStep == << <<1, 0>>, <<-2, 0>>, <<0, 2>>, <<0, -2>> >>

\* the four doubled steps, in the order of the `directions` array
directions == << <<2, 0>>, <<-2, 0>>, <<0, 2>>, <<0, -2>> >>

MovedBy(point, d) == Point(point.x + d[1], point.y + d[2])

\* Maze::neighbors: try_into::<usize>() fails below 0, then the bounds test
neighborsOf(m, point, dirs) ==
    LET all == [i \in 1..Len(dirs) |-> MovedBy(point, dirs[i])]
        ok(p) == p.x >= 0 /\ p.y >= 0 /\ p.x < m.width /\ p.y < m.height
    IN  SelectSeq(all, ok)

neighborsNoDown(m, point) ==
    neighborsOf(m, point, << <<2, 0>>, <<-2, 0>>, <<0, -2>> >>)

neighbors(m, point) == neighborsOf(m, point, directions)

wallBetweenIsCurrent(current, next) == current

\* the cell between current and next: ((current.x + next.x) / 2, ...)
wallBetween(current, next) ==
    Point((current.x + next.x) \div 2, (current.y + next.y) \div 2)

SeqToSet(s) == {s[i] : i \in 1..Len(s)}

unvisited_neighbors(m, current, seen) ==
    SelectSeq(neighbors(m, current), LAMBDA n : n \notin seen)

(***************************************************************************)
(* Generation: draw_maze (lib.rs) and main (main.rs)                       *)
(***************************************************************************)
Init ==
    /\ maze = MazeNew(0, 0)
    /\ prog = "none"
    /\ pc = "idle"
    /\ start = NoPoint
    /\ stack = <<>>
    /\ visited = {}
    /\ goal = NoPoint
    /\ algorithm = "none"
    /\ outcome = NoOutcome

\* draw_maze(size) up to the first test of the generator's loop:
\* Maze::new(size, size); maze.set(1, 1, Path); generate_maze pushes the
\* start and inserts it into visited
DrawMaze(size) ==
    /\ pc = "idle"
    /\ prog' = "lib"
    /\ LET m == MazeNew(size, size)
       IN  IF setPanics(m, 1, 1)
           THEN /\ maze' = m
                /\ pc' = "panic"
                /\ UNCHANGED <<start, stack, visited>>
           ELSE /\ maze' = set(m, 1, 1, Path)
                /\ start' = Point(1, 1)
                /\ stack' = <<Point(1, 1)>>
                /\ visited' = {Point(1, 1)}
                /\ pc' = "loop"
    /\ UNCHANGED <<goal, algorithm, outcome>>

\* main() up to the first test of the generator's loop: Maze::new(4, 4);
\* generate_maze_recursive_backtracker(Point {0, 0}) pushes the start and
\* inserts it into visited; no cell is set before the loop
Main ==
    /\ pc = "idle"
    /\ prog' = "main"
    /\ maze' = MazeNew(MainWidth, MainHeight)
    /\ start' = Point(0, 0)
    /\ stack' = <<Point(0, 0)>>
    /\ visited' = {Point(0, 0)}
    /\ pc' = "loop"
    /\ UNCHANGED <<goal, algorithm, outcome>>

\* one iteration of the loop with an unvisited neighbour: `next` is the
\* random choice
Carve(next) ==
    /\ pc = "loop"
    /\ stack # <<>>
    /\ LET current == stack[Len(stack)]
           wall == wallBetween(current, next)
       IN  /\ next \in SeqToSet(unvisited_neighbors(maze, current, visited))
           /\ maze' = set(set(maze, wall.x, wall.y, Path), next.x, next.y, Path)
           /\ visited' = visited \cup {next}
           /\ stack' = Append(stack, next)
    /\ UNCHANGED <<prog, pc, start, goal, algorithm, outcome>>

\* one iteration of the loop at a dead end: pop_back
Backtrack ==
    /\ pc = "loop"
    /\ stack # <<>>
    /\ unvisited_neighbors(maze, stack[Len(stack)], visited) = <<>>
    /\ stack' = SubSeq(stack, 1, Len(stack) - 1)
    /\ UNCHANGED <<maze, prog, pc, start, visited, goal, algorithm, outcome>>

\* stack.back() is None: the loop ends and generation returns
Finish ==
    /\ pc = "loop"
    /\ stack = <<>>
    /\ pc' = "done"
    /\ UNCHANGED <<maze, prog, start, stack, visited, goal, algorithm, outcome>>

GenPoints == {Point(x, y) : x \in 0..GenMaxSize, y \in 0..GenMaxSize}

GenStep ==
    \/ \E next \in GenPoints : Carve(next)
    \/ Backtrack
    \/ Finish

NextGen ==
    \/ \E size \in 0..GenMaxSize : DrawMaze(size)
    \/ Main
    \/ GenStep

SpecGen == Init /\ [][NextGen]_vars

\* the generator runs to completion without suspension points
FairSpecGen == SpecGen /\ WF_vars(GenStep)

(***************************************************************************)
(* Path graph adapter: Point::to and Maze::successors                      *)
(***************************************************************************)
\* Point::to: usize::try_from(..).expect_throw(..) throws below 0; x is
\* converted before y
toThrows(from, x, y) == from.x + x < 0 \/ from.y + y < 0

toMessage(from, x, y) ==
    IF from.x + x < 0 THEN "x is out of bounds" ELSE "y is out of bounds"

to(from, x, y) == Point(from.x + x, from.y + y)

\* the four unit steps, in the order of the array in Maze::successors
steps4 == << <<-1, 0>>, <<1, 0>>, <<0, -1>>, <<0, 1>> >>

\* the filter of Maze::successors: in bounds and not Wall
keepsInBoundsOpen(m, point) ==
    get(m, point.x, point.y) # "None" /\ get(m, point.x, point.y) # Wall

keepsInBounds(m, point) == get(m, point.x, point.y) # "None"

keeps(m, point) == keepsInBoundsOpen(m, point)

\* Maze::successors: the array of four Point::to calls is built first, so
\* one throwing call ends the whole call; then the filter runs
successors(m, point) ==
    LET bad == {i \in 1..4 : toThrows(point, steps4[i][1], steps4[i][2])}
        first == CHOOSE i \in bad : \A j \in bad : i <= j
        all == [i \in 1..4 |-> to(point, steps4[i][1], steps4[i][2])]
    IN  IF bad # {}
        THEN [throws |-> TRUE, points |-> <<>>,
              message |-> toMessage(point, steps4[first][1], steps4[first][2])]
        ELSE [throws |-> FALSE, message |-> "",
              points |-> SelectSeq(all, LAMBDA q : keeps(m, q))]

(***************************************************************************)
(* The search strategies of the pathfinding crate, as Path::calc calls     *)
(* them: success is `n == goal`, every move costs 1                        *)
(***************************************************************************)
Found(steps) == [kind |-> "path", steps |-> steps, message |-> ""]
NotFound == [kind |-> "none", steps |-> <<>>, message |-> ""]
Threw(message) == [kind |-> "throw", steps |-> <<>>, message |-> message]

\* position of node in the insertion-ordered map, 0 when vacant
PositionOf(parents, node) ==
    IF \E i \in 1..Len(parents) : parents[i].node = node
    THEN CHOOSE i \in 1..Len(parents) : parents[i].node = node
    ELSE 0

\* walk the parent indices back to the start (parent 0 stands for usize::MAX)
RECURSIVE reverse_path(_, _)
reverse_path(parents, i) ==
    IF i = 0 THEN <<>>
    ELSE Append(reverse_path(parents, parents[i].parent), parents[i].node)

\* bfs: the start is tested first; then nodes are expanded in insertion
\* order and each successor is tested as it is generated
RECURSIVE bfsLoop(_, _, _, _)
RECURSIVE bfsScan(_, _, _, _, _, _)
bfsLoop(m, end, parents, i) ==
    IF i > Len(parents) THEN NotFound
    ELSE LET s == successors(m, parents[i].node)
         IN  IF s.throws THEN Threw(s.message)
             ELSE bfsScan(m, end, parents, i, s.points, 1)

bfsScan(m, end, parents, i, succ, k) ==
    IF k > Len(succ) THEN bfsLoop(m, end, parents, i + 1)
    ELSE IF succ[k] = end
         THEN Found(Append(reverse_path(parents, i), succ[k]))
    ELSE IF PositionOf(parents, succ[k]) # 0
         THEN bfsScan(m, end, parents, i, succ, k + 1)
    ELSE bfsScan(m, end, Append(parents, [node |-> succ[k], parent |-> i, cost |-> 0]),
                 i, succ, k + 1)

bfs(m, begin, end) ==
    IF begin = end THEN Found(<<begin>>)
    ELSE bfsLoop(m, end, <<[node |-> begin, parent |-> 0, cost |-> 0]>>, 1)

\* dfs, recursive formulation: the path so far is the only memory
RECURSIVE dfsStep(_, _, _)
RECURSIVE dfsTry(_, _, _, _, _)
dfsStep(m, end, path) ==
    IF path[Len(path)] = end THEN Found(path)
    ELSE LET s == successors(m, path[Len(path)])
         IN  IF s.throws THEN Threw(s.message)
             ELSE dfsTry(m, end, path, s.points, 1)

dfsTry(m, end, path, succ, k) ==
    IF k > Len(succ) THEN NotFound
    ELSE IF succ[k] \in SeqToSet(path) THEN dfsTry(m, end, path, succ, k + 1)
    ELSE LET r == dfsStep(m, end, Append(path, succ[k]))
         IN  IF r.kind = "none" THEN dfsTry(m, end, path, succ, k + 1) ELSE r

dfsRecursive(m, begin, end) == dfsStep(m, end, <<begin>>)

\* dfs, iterative formulation: a to_visit stack, a visited set and a
\* parents map that the last discoverer of a node overwrites
RECURSIVE build_path(_, _)
build_path(node, parents) ==
    IF node \in DOMAIN parents
    THEN Append(build_path(parents[node], parents), node)
    ELSE <<node>>

RECURSIVE pushAll(_, _, _, _, _, _)
pushAll(succ, k, node, seen, to_visit, parents) ==
    IF k = 0 THEN [to_visit |-> to_visit, parents |-> parents]
    ELSE IF succ[k] \in seen
         THEN pushAll(succ, k - 1, node, seen, to_visit, parents)
    ELSE pushAll(succ, k - 1, node, seen, Append(to_visit, succ[k]),
                 [n \in DOMAIN parents \cup {succ[k]} |->
                     IF n = succ[k] THEN node ELSE parents[n]])

RECURSIVE dfsLoop(_, _, _, _, _)
dfsLoop(m, end, to_visit, seen, parents) ==
    IF to_visit = <<>> THEN NotFound
    ELSE LET node == to_visit[Len(to_visit)]
             rest == SubSeq(to_visit, 1, Len(to_visit) - 1)
         IN  IF node \in seen THEN dfsLoop(m, end, rest, seen, parents)
             ELSE IF node = end THEN Found(build_path(node, parents))
             ELSE LET s == successors(m, node)
                      pushed == pushAll(s.points, Len(s.points), node,
                                        seen \cup {node}, rest, parents)
                  IN  IF s.throws THEN Threw(s.message)
                      ELSE dfsLoop(m, end, pushed.to_visit, seen \cup {node},
                                   pushed.parents)

dfsIterative(m, begin, end) == dfsLoop(m, end, <<begin>>, {}, <<>>)

\* the crate's release is not pinned by the sources: either formulation
dfs(m, begin, end) == {dfsRecursive(m, begin, end), dfsIterative(m, begin, end)}

\* dijkstra: a binary heap of (cost, index) ordered by cost alone, so the
\* order among equal costs is left open; the popped node is tested, a stale
\* entry is skipped, then the successors are relaxed
RECURSIVE dijkstraRun(_, _, _, _)
RECURSIVE dijkstraRelax(_, _, _, _, _, _, _)
dijkstraPop(m, end, to_see, parents, e) ==
    IF parents[e.index].node = end THEN {Found(reverse_path(parents, e.index))}
    ELSE IF e.cost > parents[e.index].cost THEN dijkstraRun(m, end, to_see, parents)
    ELSE LET s == successors(m, parents[e.index].node)
         IN  IF s.throws THEN {Threw(s.message)}
             ELSE dijkstraRelax(m, end, to_see, parents, e, s.points, 1)

dijkstraRun(m, end, to_see, parents) ==
    IF to_see = {} THEN {NotFound}
    ELSE LET smallest == {e \in to_see : \A f \in to_see : e.cost <= f.cost}
         IN  UNION {dijkstraPop(m, end, to_see \ {e}, parents, e) : e \in smallest}

dijkstraRelax(m, end, to_see, parents, e, succ, k) ==
    IF k > Len(succ) THEN dijkstraRun(m, end, to_see, parents)
    ELSE LET new_cost == e.cost + 1
             n == PositionOf(parents, succ[k])
             entry == [node |-> succ[k], parent |-> e.index, cost |-> new_cost]
         IN  IF n = 0
             THEN dijkstraRelax(m, end,
                      to_see \cup {[cost |-> new_cost, index |-> Len(parents) + 1]},
                      Append(parents, entry), e, succ, k + 1)
             ELSE IF parents[n].cost > new_cost
             THEN dijkstraRelax(m, end,
                      to_see \cup {[cost |-> new_cost, index |-> n]},
                      [parents EXCEPT ![n] = entry], e, succ, k + 1)
             ELSE dijkstraRelax(m, end, to_see, parents, e, succ, k + 1)

dijkstra(m, begin, end) ==
    dijkstraRun(m, end, {[cost |-> 0, index |-> 1]},
                <<[node |-> begin, parent |-> 0, cost |-> 0]>>)

(***************************************************************************)
(* Path::calc                                                              *)
(***************************************************************************)
Algorithm == {"Dijkstra", "Bfs", "Dfs"}

\* the match on the algorithm: the Option<Vec<Point>> each strategy gives
searchAllDfs(m, begin, end, alg) == dfs(m, begin, end)

search(m, begin, end, alg) ==
    CASE alg = "Bfs" -> {bfs(m, begin, end)}
      [] alg = "Dfs" -> dfs(m, begin, end)
      [] alg = "Dijkstra" -> dijkstra(m, begin, end)

\* path.expect("failed to generate path"): None panics; there is no check of
\* the endpoints and no error value
expect(r) ==
    CASE r.kind = "path" -> r
      [] r.kind = "none" ->
            [kind |-> "panic", steps |-> <<>>, message |-> "failed to generate path"]
      [] r.kind = "throw" -> r

calc(m, begin, end, alg) == {expect(r) : r \in search(m, begin, end, alg)}

(***************************************************************************)
(* Pathfinding on an arbitrary grid: Maze::new, Maze::set,                 *)
(* Maze::successors, draw_path                                             *)
(***************************************************************************)
\* Maze::new(width, height)
NewMaze(width, height) ==
    /\ pc = "idle"
    /\ prog' = "new"
    /\ maze' = MazeNew(width, height)
    /\ pc' = "built"
    /\ UNCHANGED <<start, stack, visited, goal, algorithm, outcome>>

OpenCount(m) == Cardinality({i \in 1..Len(m.cells) : m.cells[i] = Path})

\* maze.set(x, y, GridCell::Path) on an in-bounds Wall cell
SetCell(x, y) ==
    /\ pc = "built"
    /\ x < maze.width /\ y < maze.height
    /\ get(maze, x, y) = Wall
    /\ OpenCount(maze) < MaxOpen
    /\ maze' = set(maze, x, y, Path)
    /\ UNCHANGED <<prog, pc, start, stack, visited, goal, algorithm, outcome>>

\* maze.successors(&point) for an in-bounds point
Successors(point) ==
    /\ pc = "built"
    /\ point.x < maze.width /\ point.y < maze.height
    /\ start' = point
    /\ LET s == successors(maze, point)
       IN  outcome' = IF s.throws THEN Threw(s.message)
                      ELSE [kind |-> "successors", steps |-> s.points, message |-> ""]
    /\ pc' = "queried"
    /\ UNCHANGED <<maze, prog, stack, visited, goal, algorithm>>

\* draw_path(maze, start, goal, algorithm): Path::new -> Path::calc
DrawPath(begin, end, alg) ==
    /\ pc = "built"
    /\ start' = begin
    /\ goal' = end
    /\ algorithm' = alg
    /\ outcome' \in calc(maze, begin, end, alg)
    /\ pc' = "drawn"
    /\ UNCHANGED <<maze, prog, stack, visited>>

Dims == 0..MaxDim

\* coordinates a caller may hand in: MaxDim itself is out of every grid
PathPoints == {Point(x, y) : x \in 0..MaxDim, y \in 0..MaxDim}

IsOpen(m, p) == get(m, p.x, p.y) = Path

InBounds(m, p) == p.x >= 0 /\ p.y >= 0 /\ p.x < m.width /\ p.y < m.height

Cells(m) == {Point(x, y) : x \in 0..(m.width - 1), y \in 0..(m.height - 1)}

OpenCells(m) == {p \in Cells(m) : IsOpen(m, p)}

BuildGrid ==
    \/ \E width \in Dims, height \in Dims : NewMaze(width, height)
    \/ \E x \in Dims, y \in Dims : SetCell(x, y)

\* any start and goal, Open or not, in bounds or not
NextPath ==
    \/ BuildGrid
    \/ \E point \in PathPoints : Successors(point)
    \/ \E begin \in PathPoints, end \in PathPoints, alg \in Algorithm :
          DrawPath(begin, end, alg)

SpecPath == Init /\ [][NextPath]_vars

\* start and goal both Open
NextOpenPath ==
    \/ BuildGrid
    \/ \E begin \in OpenCells(maze), end \in OpenCells(maze), alg \in Algorithm :
          DrawPath(begin, end, alg)

SpecOpenPath == Init /\ [][NextOpenPath]_vars

(***************************************************************************)
(* Properties of the generator                                             *)
(***************************************************************************)
Abs(n) == IF n < 0 THEN -n ELSE n

Manhattan(p, q) == Abs(p.x - q.x) + Abs(p.y - q.y)

\* the points of V reachable from the points of S by unit steps inside V
RECURSIVE ReachIn(_, _)
ReachIn(V, S) ==
    LET more == {q \in V \ S : \E p \in S : Manhattan(p, q) = 1}
    IN  IF more = {} THEN S ELSE ReachIn(V, S \cup more)

ConnectedSet(V) == V = {} \/ \E p \in V : ReachIn(V, {p}) = V

EdgeCount(V) ==
    Cardinality({pq \in V \X V : Manhattan(pq[1], pq[2]) = 1}) \div 2

\* connected and acyclic: exactly one simple path between any two points
IsTree(V) == V = {} \/ (ConnectedSet(V) /\ EdgeCount(V) = Cardinality(V) - 1)

\* the in-bounds points reachable from S by axis steps of size 2
RECURSIVE Reach2(_, _)
Reach2(m, S) ==
    LET more == {q \in Cells(m) \ S :
                    \E p \in S : Manhattan(p, q) = 2 /\ (p.x = q.x \/ p.y = q.y)}
    IN  IF more = {} THEN S ELSE Reach2(m, S \cup more)

Odd(n) == n % 2 = 1

IsRoom(m, p) == InBounds(m, p) /\ Odd(p.x) /\ Odd(p.y)

\* p lies between two rooms that are a doubled step apart
IsMidpoint(m, p) ==
    \/ IsRoom(m, Point(p.x - 1, p.y)) /\ IsRoom(m, Point(p.x + 1, p.y))
    \/ IsRoom(m, Point(p.x, p.y - 1)) /\ IsRoom(m, Point(p.x, p.y + 1))

\* C1: once generation has run to completion (draw_maze from (1,1), main
\* from (0,0)), the Open cells under unit adjacency are connected and
\* acyclic: exactly one simple path joins any two Open cells.
C1_PerfectMaze == pc = "done" => IsTree(OpenCells(maze))

C1_Witness ==
    /\ pc = "done"
    /\ prog = "lib"
    /\ maze.width = GenMaxSize
    /\ Cardinality(OpenCells(maze)) > 2 * Cardinality(visited) - 2
    /\ Cardinality(visited) >= 4

\* C8: generation terminates for every size and every sequence of random
\* choices: the loop is always left with an empty stack, and then every
\* in-bounds cell reachable from start by axis steps of size 2 is visited.
C8_Terminates ==
    /\ (pc = "loop") ~> (pc = "done")
    /\ [](pc = "done" => stack = <<>> /\ Reach2(maze, {start}) \subseteq visited)

C8_Witness ==
    /\ pc = "done"
    /\ stack = <<>>
    /\ Cardinality(Reach2(maze, {start})) >= 9
    /\ visited = Reach2(maze, {start})

\* C9 (as claimed): the initialisation marks start visited and Open: before
\* the first iteration start is on the stack, visited and Open, and after
\* generation the start cell is Open.
C9_StartOpen ==
    /\ pc = "loop" /\ visited = {start}
          => stack = <<start>> /\ get(maze, start.x, start.y) = Path
    /\ pc = "done" => start \in visited /\ get(maze, start.x, start.y) = Path

\* only rooms and midpoints are Path; even/even cells, row 0 and column 0
\* are Wall
SublatticeOnly ==
    prog = "lib" /\ pc \in {"loop", "done"} =>
        \A p \in Cells(maze) :
            /\ get(maze, p.x, p.y) = Path => IsRoom(maze, p) \/ IsMidpoint(maze, p)
            /\ (~Odd(p.x) /\ ~Odd(p.y)) \/ p.x = 0 \/ p.y = 0
                  => get(maze, p.x, p.y) = Wall

OpenStaysOpen ==
    prog = "lib" /\ pc = "loop" =>
        \A p \in Cells(maze) :
            get(maze, p.x, p.y) = Path => get(maze', p.x, p.y) = Path

\* C10: from start (1,1), in every state of the loop a cell is Open only if
\* it is an odd/odd room or the midpoint of two rooms a doubled step apart;
\* even/even cells and cells with x = 0 or y = 0 stay Wall; an Open cell is
\* never set back to Wall.
C10_Sublattice == []SublatticeOnly /\ [][OpenStaysOpen]_vars

C10_Witness ==
    /\ prog = "lib"
    /\ pc = "loop"
    /\ maze.width = GenMaxSize
    /\ get(maze, 2, 1) = Path
    /\ get(maze, 3, 2) = Path
    /\ get(maze, 0, 0) = Wall

(***************************************************************************)
(* Properties of the adapter and the pathfinder                            *)
(***************************************************************************)
\* number of unit steps of a shortest route from the points of S to b
\* through the points of V, found layer by layer; -1 when there is none
RECURSIVE LayerDistance(_, _, _, _)
LayerDistance(V, S, b, d) ==
    LET more == {q \in V \ S : \E p \in S : Manhattan(p, q) = 1}
    IN  IF b \in S THEN d
        ELSE IF more = {} THEN -1
        ELSE LayerDistance(V, S \cup more, b, d + 1)

Distance(m, a, b) == LayerDistance(OpenCells(m), {a}, b, 0)

Returned == pc = "drawn" /\ outcome.kind = "path"

NoRepeats(s) == \A i, j \in 1..Len(s) : s[i] = s[j] => i = j

\* C2: whenever Path::calc returns a path for an Open start and goal, it
\* begins at start, ends at goal, every consecutive pair of steps is at
\* Manhattan distance 1 with both cells Open, and for Bfs and Dijkstra no
\* coordinate occurs twice.
C2_ValidPath ==
    Returned =>
        /\ Len(outcome.steps) >= 1
        /\ outcome.steps[1] = start
        /\ outcome.steps[Len(outcome.steps)] = goal
        /\ \A i \in 1..(Len(outcome.steps) - 1) :
              /\ Manhattan(outcome.steps[i], outcome.steps[i + 1]) = 1
              /\ IsOpen(maze, outcome.steps[i])
              /\ IsOpen(maze, outcome.steps[i + 1])
        /\ algorithm \in {"Bfs", "Dijkstra"} => NoRepeats(outcome.steps)

C2_Witness ==
    /\ Returned
    /\ algorithm = "Bfs"
    /\ Len(outcome.steps) = 3
    /\ start # goal
    /\ OpenCount(maze) = MaxOpen

C4_InvalidEndpoint ==
    pc = "drawn" /\ (~IsOpen(maze, start) \/ ~IsOpen(maze, goal)) =>
        outcome.kind # "path"

\* C5 (as claimed): for Open start and goal, a path is returned when some
\* route of Open cells joins them, and otherwise the call ends with the
\* error outcome NoPathFound and never panics.
C5_PathOrNoPathFound ==
    pc = "drawn" /\ IsOpen(maze, start) /\ IsOpen(maze, goal) =>
        IF Distance(maze, start, goal) >= 0
        THEN outcome.kind = "path"
        ELSE outcome.kind = "NoPathFound"

\* C6 (as claimed): construction with width = 0 or height = 0 hands the
\* caller no grid; otherwise the grid has width * height cells, all Wall.
C6_InvalidDimensions ==
    pc = "built" /\ OpenCount(maze) = 0 =>
        /\ maze.width > 0
        /\ maze.height > 0
        /\ Len(maze.cells) = maze.width * maze.height
        /\ \A i \in 1..Len(maze.cells) : maze.cells[i] = Wall

\* C7 (as claimed): for every in-bounds point, x = 0 and y = 0 included,
\* successors returns exactly the in-bounds Open cells at Manhattan
\* distance 1 and never throws.
C7_Successors ==
    pc = "queried" =>
        /\ outcome.kind = "successors"
        /\ SeqToSet(outcome.steps) =
              {q \in OpenCells(maze) : Manhattan(start, q) = 1}

=============================================================================
